---- MODULE Spec2Model ----
(***************************************************************************)
(* Model of the display manager of go-monitor-ssd1306: DisplayManager.Run, *)
(* renderCurrentScreen, renderComponent and updateBrightness, together     *)
(* with the tickers that feed Run's select loop and the display device     *)
(* behind the DisplayDevice interface.                                     *)
(*                                                                         *)
(* The frame buffer dm.img is modelled by the set of regions painted since *)
(* the last clear; a region is <<screen index, component index, part>>.    *)
(* A call of a handler is an activation record: the control loop calls     *)
(* handlers synchronously, which LoopReady states.                         *)
(***************************************************************************)
EXTENDS Integers, Sequences, FiniteSets, TLC

\* ------------------------------------------------------------- bounds
MaxScreens == 3        \* configurations have 0..MaxScreens screens
MaxLog == 2            \* devLog keeps the first MaxLog commands of the startup
MaxLiveScreens == 3    \* LiveSpec's configurations have 1..MaxLiveScreens screens
MaxAddrs == 2          \* an interface has 0..MaxAddrs addresses
MaxPos == 1            \* bars start 0..MaxPos pixels from a buffer edge
MaxBarW == 5           \* bars are 0..MaxBarW wide
MaxBarH == 3           \* bars are 0..MaxBarH high

\* ------------------------------------------------- program constants
width == 128
height == 64
barHeight == 7
brightContrast == 255
dimContrast == 1
HoursPerDay == 24      \* time.Time.Hour() is in 0..23

Hours == 0 .. (HoursPerDay - 1)

\* --------------------------------------------------- configurations
\* Component.Type values renderComponent's switch knows.
KnownTypes == {"time", "ip", "cpu", "memory", "disk", "temperature"}

\* Component types whose provider can fail (cpu.Percent, mem.VirtualMemory,
\* disk.Usage, os.ReadFile/Sscanf of the thermal zone).
FallibleTypes == {"cpu", "memory", "disk", "temperature"}

\* Component types that draw a bar when ShowBar is set.
BarTypes == {"cpu", "memory", "disk", "temperature"}

\* The labels of the README's example configuration; its time components
\* have none.
LabelOf(t) ==
    CASE t = "ip" -> "IP"
      [] t = "cpu" -> "CPU"
      [] t = "memory" -> "MEM"
      [] t = "disk" -> "Disk"
      [] t = "temperature" -> "Temp"
      [] OTHER -> ""

Comp(t, bar) == [Type |-> t, ShowBar |-> bar, Label |-> LabelOf(t)]

\* Sample screens: every known type, an unknown type, a screen without a
\* fallible provider, and an empty screen.
ScreenCatalogue ==
    << << Comp("time", FALSE), Comp("cpu", TRUE), Comp("ip", FALSE) >>,
       << Comp("memory", FALSE), Comp("temperature", TRUE) >>,
       << Comp("time", FALSE), Comp("gauge", FALSE), Comp("ip", FALSE) >>,
       << Comp("disk", TRUE), Comp("memory", FALSE) >>,
       << >> >>

\* The Screens list with n screens.
ScreensOf(n) ==
    [i \in 1 .. n |-> ScreenCatalogue[((i - 1) % Len(ScreenCatalogue)) + 1]]

\* invert_duration values: disabled, and the README's 30 seconds.
InvertDurations == {0, 30}

\* <<day_start_hour, night_start_hour>>: the README's, a window meant to
\* wrap midnight, and equal bounds.
DayNightChoices == { <<7, 18>>, <<18, 7>>, <<12, 12>> }

Configs ==
    { [Screens |-> ScreensOf(n), InvertDuration |-> d,
       NetworkInterface |-> "eth0",
       DayStartHour |-> dn[1], NightStartHour |-> dn[2]] :
         n \in 0 .. MaxScreens, d \in InvertDurations, dn \in DayNightChoices }

\* -------------------------------------------------------------- state
VARIABLES
    config,         \* dm.config, immutable after load
    currentScreen,  \* dm.currentScreen (0-based, as in the code)
    isInverted,     \* dm.isInverted
    img,            \* dm.img: regions painted since the last clear
    timeNow,        \* dm.timeNow: the hours of day the clock may report
    run,            \* where Run is: "new", "initB", "initR", "loop", "returned", "panicked"
    runErr,         \* the error Run returned: <<wrapping message, cause>>
    active,         \* handler calls in progress
    tickers,        \* tickers created and not stopped
    pending,        \* pending[t]: a tick is buffered in ticker t's channel
    devContrast,    \* device: last contrast applied (0: power-on default)
    devInverted,    \* device: inversion state
    devFrame,       \* device: last frame received (NoFrame before any)
    devLog,         \* the first MaxLog commands issued before the loop
    hist            \* currentScreen at construction and after each completed
                    \* screen switch: the last Len(Screens)+1 of these values

dmVars == <<config, currentScreen, isInverted, img, timeNow>>
loopVars == <<run, runErr, active, tickers, pending>>
devVars == <<devContrast, devInverted, devFrame, devLog>>
vars == <<dmVars, loopVars, devVars, hist>>

TickerNames == {"screen", "update", "invert", "brightness"}

NoFrame == {<<0, 0, "none">>}

NoError == <<"", "nil">>

\* A device command, as issued.
Cmd(op, frame, flag, level, rect, sp) ==
    [op |-> op, frame |-> frame, flag |-> flag, level |-> level,
     rect |-> rect, sp |-> sp]

\* dm.img.Bounds(): image.Rect(0, 0, width, height).
ImgBounds == <<0, 0, width, height>>

NoRect == <<0, 0, 0, 0>>

\* Line 499: dm.dev.Draw(dm.img.Bounds(), dm.img, image.Point{0, 0}).
DrawCmd(frame) == Cmd("Draw", frame, FALSE, 0, ImgBounds, <<0, 0>>)
InvertCmd(b) == Cmd("Invert", {}, b, 0, NoRect, <<0, 0>>)
ContrastCmd(c) == Cmd("SetContrast", {}, FALSE, c, NoRect, <<0, 0>>)

\* The log records what Run issues before it enters its loop.
Logged(c) ==
    IF Len(devLog) < MaxLog /\ run # "loop" THEN Append(devLog, c) ELSE devLog

\* A handler call. kind: "initBrightness", "initRender", "screen", "update",
\* "invert", "brightness". pre: the manager's state when the call began.
\* text: the pieces of the last label drawn; asked: the providers queried
\* in this render cycle.
Activation(kind, pc) ==
    [kind |-> kind, pc |-> pc, k |-> 0, scr |-> -1,
     text |-> << >>, asked |-> {},
     pre |-> [cs |-> currentScreen, inv |-> isInverted, img |-> img],
     cmds |-> << >>, err |-> "nil"]

Init ==
    /\ config \in Configs
    /\ currentScreen = 0
    /\ isInverted = FALSE
    /\ img = {}
    /\ timeNow = Hours
    /\ run = "new"
    /\ runErr = NoError
    /\ active = {}
    /\ tickers = {}
    /\ pending = [t \in TickerNames |-> FALSE]
    /\ devContrast = 0
    /\ devInverted = FALSE
    /\ devFrame = NoFrame
    /\ devLog = << >>
    /\ hist = <<0>>


\* ------------------------------------------------- pure operations
\* Variant: the day window excludes its first hour.
IsDaytimeExclusive(hour) ==
    hour > config.DayStartHour /\ hour < config.NightStartHour

\* Variant: a day window whose start is after its end wraps past midnight.
IsDaytimeWrapping(hour) ==
    IF config.DayStartHour <= config.NightStartHour
    THEN hour >= config.DayStartHour /\ hour < config.NightStartHour
    ELSE hour >= config.DayStartHour \/ hour < config.NightStartHour

\* updateBrightness, lines 418-424: the contrast chosen at `hour`.
IsDaytime(hour) ==
    hour >= config.DayStartHour /\ hour < config.NightStartHour

ContrastAt(hour) == IF IsDaytime(hour) THEN brightContrast ELSE dimContrast

\* Variant: a zero duration still creates the invert ticker.
InvertEnabledAtZero == config.InvertDuration >= 0

\* Run, line 439: the invert ticker exists only for a positive duration;
\* otherwise invertChan stays nil and its select case never fires.
InvertEnabled == config.InvertDuration > 0

\* Variant: the index sticks at the last screen instead of wrapping.
NextScreenClamped(cs) ==
    IF cs + 1 < Len(config.Screens) THEN cs + 1 ELSE cs

\* Variant: the index is incremented without the modulo.
NextScreenNoMod(cs) == cs + 1

\* Variant: the index advances by two.
NextScreenSkip(cs) == (cs + 2) % Len(config.Screens)

\* Run, line 462.
NextScreen(cs) == (cs + 1) % Len(config.Screens)

\* Variant: unknown types get a default label.
PaintedDefaultLabel(scr, k, comp) ==
    {<<scr, k, "label">>}
        \cup (IF comp.Type \in BarTypes /\ comp.ShowBar
              THEN {<<scr, k, "bar">>} ELSE {})

\* renderComponent: what it paints for component k of screen scr, and the
\* error it returns when its provider fails. A type outside the switch
\* paints nothing and returns nil.
Painted(scr, k, comp) ==
    IF comp.Type \notin KnownTypes THEN {}
    ELSE {<<scr, k, "label">>}
           \cup (IF comp.Type \in BarTypes /\ comp.ShowBar
                 THEN {<<scr, k, "bar">>} ELSE {})

CanFail(comp) == comp.Type \in FallibleTypes

\* The data source each case of the switch reads; none for other types.
Provider(comp) ==
    CASE comp.Type = "time" -> {"clock"}
      [] comp.Type = "ip" -> {"network"}
      [] comp.Type = "cpu" -> {"cpu"}
      [] comp.Type = "memory" -> {"memory"}
      [] comp.Type = "disk" -> {"disk"}
      [] comp.Type = "temperature" -> {"tempFile"}
      [] OTHER -> {}

\* What the network may look like to the lookup: whether the interface
\* exists, whether its addresses can be listed, and the kinds of its
\* addresses ("ip4": an IPNet with a 4-byte form, "ip6": an IPNet without
\* one, "other": not an IPNet).
AddrKinds == {"ip4", "ip6", "other"}

AddrLists == UNION { [1 .. n -> AddrKinds] : n \in 0 .. MaxAddrs }

NetStates ==
    { [found |-> FALSE, listed |-> FALSE, addrs |-> << >>],
      [found |-> TRUE, listed |-> FALSE, addrs |-> << >>] }
        \cup { [found |-> TRUE, listed |-> TRUE, addrs |-> l] : l \in AddrLists }

NoNet == [found |-> FALSE, listed |-> FALSE, addrs |-> << >>]

\* Variant: without an IPv4 address the lookup returns the empty string.
GetIPv4AddressEmpty(net, interfaceName) ==
    IF ~net.found THEN << "No ", interfaceName >>
    ELSE IF ~net.listed THEN << "No IP" >>
    ELSE IF \E i \in 1 .. Len(net.addrs) : net.addrs[i] = "ip4"
         THEN << "a.b.c.d" >>
         ELSE << "" >>

\* GetIPv4Address: the pieces of the returned string. "a.b.c.d" stands for
\* the dotted form of the first address that has one.
GetIPv4Address(net, interfaceName) ==
    IF ~net.found THEN << "No ", interfaceName >>
    ELSE IF ~net.listed THEN << "No IP" >>
    ELSE IF \E i \in 1 .. Len(net.addrs) : net.addrs[i] = "ip4"
         THEN << "a.b.c.d" >>
         ELSE << "No IPv4" >>

\* The string given to addLabel, in pieces: the Sprintf formats of
\* renderComponent with the value left as its verb.
LabelText(comp, net, interfaceName) ==
    CASE comp.Type = "time" ->
             (IF comp.Label # "" THEN << comp.Label, ": " >> ELSE << >>)
                 \o << "15:04:05" >>
      [] comp.Type = "ip" ->
             << comp.Label, ": " >> \o GetIPv4Address(net, interfaceName)
      [] comp.Type = "temperature" -> << comp.Label, ": ", "%.1f C" >>
      [] OTHER -> << comp.Label, ": ", "%.1f%%" >>

\* What one call of renderComponent may meet: its provider working or
\* failing, and for "ip" the state of the network.
Envs(comp) ==
    { [ok |-> o, net |-> n] :
        o \in (IF CanFail(comp) THEN BOOLEAN ELSE {TRUE}),
        n \in (IF comp.Type = "ip" THEN NetStates ELSE {NoNet}) }

\* Variant: handlers are started as goroutines, the loop selects again at once.
LoopReadyAsync == TRUE

\* The control loop calls every handler synchronously: it is back at the
\* select only when no handler call is in progress.
LoopReady == active = {}

\* The error Run returns for a failed handler call (lines 446-481).
RunError(a) ==
    CASE a.kind = "initBrightness" -> <<"failed to set initial brightness", a.err>>
      [] a.kind = "brightness" -> <<"failed to update brightness", a.err>>
      [] a.kind = "invert" -> <<"failed to toggle invert", a.err>>
      [] OTHER -> <<"", a.err>>

\* The window of screen indices kept for the rotation history.
Observed(cs) ==
    LET h == Append(hist, cs)
        n == Len(config.Screens) + 1
    IN IF Len(h) > n THEN SubSeq(h, Len(h) - n + 1, Len(h)) ELSE h

Replace(a, b) == (active \ {a}) \cup {b}

\* ------------------------------------------------------------ tickers
\* A ticker delivers a tick into its channel (capacity 1; a tick that finds
\* the channel full is dropped).
Tick(t) ==
    /\ run \notin {"returned", "panicked"}
    /\ t \in tickers
    /\ ~pending[t]
    /\ pending' = [pending EXCEPT ![t] = TRUE]
    /\ UNCHANGED <<dmVars, run, runErr, active, tickers, devVars, hist>>

\* ---------------------------------------------------------------- Run
\* Variant: Run renders the first screen before it sets the brightness.
RunStartRenderFirst ==
    /\ run = "new"
    /\ run' = "initR"
    /\ tickers' = {"screen", "update", "brightness"}
                    \cup (IF InvertEnabled THEN {"invert"} ELSE {})
    /\ active' = {Activation("initRender", "render")}
    /\ UNCHANGED <<dmVars, runErr, pending, devVars, hist>>

\* Lines 429-446: create the screen, update and (if enabled) invert tickers,
\* then call updateBrightness.
RunStart ==
    /\ run = "new"
    /\ run' = "initB"
    /\ tickers' = {"screen", "update"}
                    \cup (IF InvertEnabled THEN {"invert"} ELSE {})
    /\ active' = {Activation("initBrightness", "eval")}
    /\ UNCHANGED <<dmVars, runErr, pending, devVars, hist>>

HandlerKind(t) ==
    CASE t = "screen" -> "screen"
      [] t = "update" -> "update"
      [] t = "invert" -> "invert"
      [] t = "brightness" -> "brightness"

\* Variant: the update case also advances the screen index.
FirstPcUpdateAdvances(t) ==
    CASE t = "screen" -> "advance"
      [] t = "update" -> "advance"
      [] t = "invert" -> "toggle"
      [] t = "brightness" -> "eval"

FirstPc(t) ==
    CASE t = "screen" -> "advance"
      [] t = "update" -> "render"
      [] t = "invert" -> "toggle"
      [] t = "brightness" -> "eval"

\* The order in which the select lists its cases.
CaseOrder(t) ==
    CASE t = "screen" -> 1
      [] t = "update" -> 2
      [] t = "invert" -> 3
      [] t = "brightness" -> 4

\* Variant: among the ready cases the select takes the one listed first.
SelectByCaseOrder(t) ==
    /\ run = "loop"
    /\ LoopReady
    /\ pending[t]
    /\ \A u \in TickerNames : pending[u] => CaseOrder(t) <= CaseOrder(u)
    /\ pending' = [pending EXCEPT ![t] = FALSE]
    /\ active' = active \cup {Activation(HandlerKind(t), FirstPc(t))}
    /\ UNCHANGED <<dmVars, run, runErr, tickers, devVars, hist>>

\* Lines 460-478: the select receives one buffered tick and enters its case.
Select(t) ==
    /\ run = "loop"
    /\ LoopReady
    /\ pending[t]
    /\ pending' = [pending EXCEPT ![t] = FALSE]
    /\ active' = active \cup {Activation(HandlerKind(t), FirstPc(t))}
    /\ UNCHANGED <<dmVars, run, runErr, tickers, devVars, hist>>

\* Variant: a handler's error is dropped and the loop goes on.
HandlerReturnIgnoringError(a) ==
    /\ a.pc = "ret"
    /\ run \notin {"returned", "panicked"}
    /\ runErr' = runErr
    /\ CASE a.kind = "initBrightness" ->
              /\ run' = "initR"
              /\ tickers' = tickers \cup {"brightness"}
              /\ active' = Replace(a, Activation("initRender", "render"))
         [] a.kind = "initRender" ->
              /\ run' = "loop"
              /\ tickers' = tickers
              /\ active' = active \ {a}
         [] OTHER ->
              /\ run' = run
              /\ tickers' = tickers
              /\ active' = active \ {a}
    /\ hist' = IF a.kind = "screen" THEN Observed(currentScreen) ELSE hist
    /\ UNCHANGED <<dmVars, pending, devVars>>

\* A handler call returns to Run: an error ends Run (the deferred Stops
\* run); nil continues with the next statement of Run.
HandlerReturn(a) ==
    /\ a.pc = "ret"
    /\ run \notin {"returned", "panicked"}
    /\ IF a.err # "nil"
       THEN /\ run' = "returned"
            /\ runErr' = RunError(a)
            /\ tickers' = {}
            /\ active' = {}
       ELSE /\ runErr' = runErr
            /\ CASE a.kind = "initBrightness" ->
                      /\ run' = "initR"
                      /\ tickers' = tickers \cup {"brightness"}
                      /\ active' = Replace(a, Activation("initRender", "render"))
                 [] a.kind = "initRender" ->
                      /\ run' = "loop"
                      /\ tickers' = tickers
                      /\ active' = active \ {a}
                 [] OTHER ->
                      /\ run' = run
                      /\ tickers' = tickers
                      /\ active' = active \ {a}
    /\ hist' = IF a.kind = "screen" /\ a.err = "nil"
               THEN Observed(currentScreen) ELSE hist
    /\ UNCHANGED <<dmVars, pending, devVars>>

\* A run-time panic (index out of range, integer divide by zero) ends the
\* process.
Panic ==
    /\ run' = "panicked"
    /\ active' = {}
    /\ tickers' = {}
    /\ UNCHANGED <<runErr, pending, hist>>

\* --------------------------------------------------- updateBrightness
\* Lines 418-426: read the hour, choose the contrast, issue SetContrast.
BrightnessEval(a) ==
    /\ a.pc = "eval"
    /\ \E hour \in timeNow :
         LET c == ContrastCmd(ContrastAt(hour) % 256)
         IN /\ active' = Replace(a, [a EXCEPT !.pc = "contrasting",
                                              !.cmds = Append(@, c)])
            /\ devLog' = Logged(c)
    /\ UNCHANGED <<dmVars, run, runErr, tickers, pending,
                   devContrast, devInverted, devFrame, hist>>

\* Variant: a completed SetContrast is followed by a repaint.
SetContrastEndRepaints(a) ==
    /\ a.pc = "contrasting"
    /\ devContrast' = a.cmds[Len(a.cmds)].level
    /\ active' = Replace(a, [a EXCEPT !.pc = "render"])
    /\ UNCHANGED <<dmVars, run, runErr, tickers, pending,
                   devInverted, devFrame, devLog, hist>>

\* The device completes (or fails) the SetContrast in flight.
SetContrastEnd(a) ==
    /\ a.pc = "contrasting"
    /\ \E ok \in BOOLEAN :
         IF ok
         THEN /\ devContrast' = a.cmds[Len(a.cmds)].level
              /\ active' = Replace(a, [a EXCEPT !.pc = "ret"])
         ELSE /\ devContrast' = devContrast
              /\ active' = Replace(a, [a EXCEPT !.pc = "ret", !.err = "contrast"])
    /\ UNCHANGED <<dmVars, run, runErr, tickers, pending,
                   devInverted, devFrame, devLog, hist>>

\* ------------------------------------------------------- invert case
\* Variant: Invert is issued with the value before the flip.
InvertToggleStale(a) ==
    /\ a.pc = "toggle"
    /\ isInverted' = ~isInverted
    /\ LET c == InvertCmd(isInverted)
       IN /\ active' = Replace(a, [a EXCEPT !.pc = "inverting",
                                            !.cmds = Append(@, c)])
          /\ devLog' = Logged(c)
    /\ UNCHANGED <<config, timeNow, currentScreen, img, run, runErr, tickers, pending,
                   devContrast, devInverted, devFrame, hist>>

\* Lines 473-474: flip isInverted, issue Invert with the new value.
InvertToggle(a) ==
    /\ a.pc = "toggle"
    /\ isInverted' = ~isInverted
    /\ LET c == InvertCmd(~isInverted)
       IN /\ active' = Replace(a, [a EXCEPT !.pc = "inverting",
                                            !.cmds = Append(@, c)])
          /\ devLog' = Logged(c)
    /\ UNCHANGED <<config, timeNow, currentScreen, img, run, runErr, tickers, pending,
                   devContrast, devInverted, devFrame, hist>>

InvertEnd(a) ==
    /\ a.pc = "inverting"
    /\ \E ok \in BOOLEAN :
         IF ok
         THEN /\ devInverted' = a.cmds[Len(a.cmds)].flag
              /\ active' = Replace(a, [a EXCEPT !.pc = "ret"])
         ELSE /\ devInverted' = devInverted
              /\ active' = Replace(a, [a EXCEPT !.pc = "ret", !.err = "invert"])
    /\ UNCHANGED <<dmVars, run, runErr, tickers, pending,
                   devContrast, devFrame, devLog, hist>>

\* ------------------------------------------------------- screen case
\* Line 462: advance the screen index (a zero-length Screens divides by zero).
ScreenAdvance(a) ==
    /\ a.pc = "advance"
    /\ IF Len(config.Screens) = 0
       THEN Panic /\ UNCHANGED <<dmVars, devVars>>
       ELSE /\ currentScreen' = NextScreen(currentScreen)
            /\ active' = Replace(a, [a EXCEPT !.pc = "render"])
            /\ UNCHANGED <<config, timeNow, isInverted, img, run, runErr, tickers,
                           pending, devVars, hist>>

\* ----------------------------------------------- renderCurrentScreen
\* Variant: the buffer is painted over without being zeroed first.
RenderClearKeeping(a) ==
    /\ a.pc = "render"
    /\ img' = img
    /\ IF currentScreen \notin 0 .. (Len(config.Screens) - 1)
       THEN Panic /\ UNCHANGED <<config, timeNow, currentScreen, isInverted, devVars>>
       ELSE /\ active' = Replace(a, [a EXCEPT !.pc = "comp", !.k = 1,
                                              !.scr = currentScreen])
            /\ UNCHANGED <<config, timeNow, currentScreen, isInverted, run, runErr,
                           tickers, pending, devVars, hist>>

\* Lines 487-492: zero the buffer, then index Screens with currentScreen.
RenderClear(a) ==
    /\ a.pc = "render"
    /\ img' = {}
    /\ IF currentScreen \notin 0 .. (Len(config.Screens) - 1)
       THEN Panic /\ UNCHANGED <<config, timeNow, currentScreen, isInverted, devVars>>
       ELSE /\ active' = Replace(a, [a EXCEPT !.pc = "comp", !.k = 1,
                                              !.scr = currentScreen])
            /\ UNCHANGED <<config, timeNow, currentScreen, isInverted, run, runErr,
                           tickers, pending, devVars, hist>>

ScreenAt(a) == config.Screens[a.scr + 1]

\* The call's record after renderComponent returned nil for comp: a known
\* type has queried its provider and drawn its label.
Rendered(a, comp, env) ==
    IF comp.Type \in KnownTypes
    THEN [a EXCEPT !.k = a.k + 1,
                   !.asked = a.asked \cup Provider(comp),
                   !.text = LabelText(comp, env.net, config.NetworkInterface)]
    ELSE [a EXCEPT !.k = a.k + 1]

\* Variant: a component's error is recorded but the loop over the components
\* goes on, and the frame is drawn.
RenderCompContinuing(a) ==
    /\ a.pc = "comp"
    /\ a.k <= Len(ScreenAt(a))
    /\ LET comp == ScreenAt(a)[a.k]
       IN \E env \in Envs(comp) :
            IF env.ok
            THEN /\ img' = img \cup Painted(a.scr, a.k, comp)
                 /\ active' = Replace(a, Rendered(a, comp, env))
            ELSE /\ img' = img
                 /\ active' = Replace(a,
                        [a EXCEPT !.k = a.k + 1,
                                  !.asked = a.asked \cup Provider(comp),
                                  !.err = "error rendering component"])
    /\ UNCHANGED <<config, timeNow, currentScreen, isInverted, run, runErr, tickers,
                   pending, devVars, hist>>

\* Lines 493-497: render the next component; the first error ends the call.
RenderComp(a) ==
    /\ a.pc = "comp"
    /\ a.k <= Len(ScreenAt(a))
    /\ LET comp == ScreenAt(a)[a.k]
       IN \E env \in Envs(comp) :
            IF env.ok
            THEN /\ img' = img \cup Painted(a.scr, a.k, comp)
                 /\ active' = Replace(a, Rendered(a, comp, env))
            ELSE /\ img' = img
                 /\ active' = Replace(a,
                        [a EXCEPT !.pc = "ret",
                                  !.asked = a.asked \cup Provider(comp),
                                  !.err = "error rendering component"])
    /\ UNCHANGED <<config, timeNow, currentScreen, isInverted, run, runErr, tickers,
                   pending, devVars, hist>>

\* Variant: Draw is issued when the last component is still to be rendered.
DrawBeginEarly(a) ==
    /\ a.pc = "comp"
    /\ a.k >= Len(ScreenAt(a))
    /\ LET c == DrawCmd(img)
       IN /\ active' = Replace(a, [a EXCEPT !.pc = "drawing",
                                            !.cmds = Append(@, c)])
          /\ devLog' = Logged(c)
    /\ UNCHANGED <<dmVars, run, runErr, tickers, pending,
                   devContrast, devInverted, devFrame, hist>>

\* Line 499: every component rendered; issue Draw of the whole buffer.
DrawBegin(a) ==
    /\ a.pc = "comp"
    /\ a.k > Len(ScreenAt(a))
    /\ LET c == DrawCmd(img)
       IN /\ active' = Replace(a, [a EXCEPT !.pc = "drawing",
                                            !.cmds = Append(@, c)])
          /\ devLog' = Logged(c)
    /\ UNCHANGED <<dmVars, run, runErr, tickers, pending,
                   devContrast, devInverted, devFrame, hist>>

\* The device completes the Draw (it has read the buffer) or fails it.
DrawEnd(a) ==
    /\ a.pc = "drawing"
    /\ \E ok \in BOOLEAN :
         IF ok
         THEN /\ devFrame' = img
              /\ active' = Replace(a, [a EXCEPT !.pc = "ret"])
         ELSE /\ devFrame' = devFrame
              /\ active' = Replace(a, [a EXCEPT !.pc = "ret", !.err = "draw"])
    /\ UNCHANGED <<dmVars, run, runErr, tickers, pending,
                   devContrast, devInverted, devLog, hist>>

\* ------------------------------------------------------ specification
Next ==
    \/ RunStart
    \/ \E t \in TickerNames : Tick(t)
    \/ \E t \in TickerNames : Select(t)
    \/ \E a \in active : HandlerReturn(a)
    \/ \E a \in active : BrightnessEval(a)
    \/ \E a \in active : SetContrastEnd(a)
    \/ \E a \in active : InvertToggle(a)
    \/ \E a \in active : InvertEnd(a)
    \/ \E a \in active : ScreenAdvance(a)
    \/ \E a \in active : RenderClear(a)
    \/ \E a \in active : RenderComp(a)
    \/ \E a \in active : DrawBegin(a)
    \/ \E a \in active : DrawEnd(a)

Spec == Init /\ [][Next]_vars

\* ------------------------------------------------- Run under fairness
\* Configurations with at least one screen, all four tickers and the
\* README's day window, under a clock that stands at noon like the fixed
\* clock of TestDisplayManager.
InitLive ==
    /\ config \in Configs
    /\ Len(config.Screens) \in 1 .. MaxLiveScreens
    /\ config.InvertDuration > 0
    /\ config.DayStartHour = 7 /\ config.NightStartHour = 18
    /\ currentScreen = 0
    /\ isInverted = FALSE
    /\ img = {}
    /\ timeNow = {12}
    /\ run = "new"
    /\ runErr = NoError
    /\ active = {}
    /\ tickers = {}
    /\ pending = [t \in TickerNames |-> FALSE]
    /\ devContrast = 0
    /\ devInverted = FALSE
    /\ devFrame = NoFrame
    /\ devLog = << >>
    /\ hist = <<0>>

\* One step of a handler call in progress.
HandlerStep ==
    \E a \in active :
        \/ HandlerReturn(a) \/ BrightnessEval(a) \/ SetContrastEnd(a)
        \/ InvertToggle(a) \/ InvertEnd(a) \/ ScreenAdvance(a)
        \/ RenderClear(a) \/ RenderComp(a) \/ DrawBegin(a) \/ DrawEnd(a)

\* The goroutine of Run keeps running, every ticker keeps ticking, and the
\* select chooses at random among its ready cases, so a case that is ready
\* again and again is chosen eventually.
Fairness ==
    /\ WF_vars(RunStart)
    /\ WF_vars(HandlerStep)
    /\ \A t \in TickerNames : WF_vars(Tick(t)) /\ SF_vars(Select(t))

LiveSpec == InitLive /\ [][Next]_vars /\ Fairness

\* ------------------------------------- updateBrightness called alone
\* A manager built as the test builds it (a fixed clock injected as
\* timeNow), with every pair of day/night bounds, on which
\* updateBrightness is called directly.
BrightnessConfigs ==
    { [Screens |-> ScreensOf(1), InvertDuration |-> 0,
       NetworkInterface |-> "eth0",
       DayStartHour |-> d, NightStartHour |-> n] : d \in Hours, n \in Hours }

InitBrightness ==
    /\ config \in BrightnessConfigs
    /\ timeNow \in { {h} : h \in Hours }
    /\ currentScreen = 0
    /\ isInverted = FALSE
    /\ img = {}
    /\ run = "test"
    /\ runErr = NoError
    /\ active = {}
    /\ tickers = {}
    /\ pending = [t \in TickerNames |-> FALSE]
    /\ devContrast = 0
    /\ devInverted = FALSE
    /\ devFrame = NoFrame
    /\ devLog = << >>
    /\ hist = <<0>>

CallUpdateBrightness ==
    /\ run = "test"
    /\ active = {}
    /\ active' = {Activation("brightness", "eval")}
    /\ UNCHANGED <<dmVars, run, runErr, tickers, pending, devVars, hist>>

NextBrightness ==
    \/ CallUpdateBrightness
    \/ \E a \in active : BrightnessEval(a)
    \/ \E a \in active : SetContrastEnd(a)
    \/ \E a \in active : HandlerReturn(a)

SpecBrightness == InitBrightness /\ [][NextBrightness]_vars

\* ------------------------------------------------------------ drawBar
\* In SpecDrawBar the buffer img is a set of pixels <<i, j>>, the pixels
\* that are not zero.

\* img.Set does nothing for a point outside the image's bounds.
InBuffer(px) == px[1] \in 0 .. (width - 1) /\ px[2] \in 0 .. (height - 1)

SetAll(pixels) == {px \in pixels : InBuffer(px)}

\* int(f) of a float64 n/d, d > 0: the fractional part is discarded.
Trunc(n, d) == IF n >= 0 THEN n \div d ELSE -((-n) \div d)

\* Fractions n/d with d a power of two: float64 holds them, and their
\* products with the small integers here, exactly.
Fractions == {<<0, 1>>, <<1, 4>>, <<1, 2>>, <<1, 1>>, <<3, 2>>, <<-1, 2>>}

\* Variant: the bar is filled whatever the percentage.
FillWidthFull(w, percentage) == w - 2

\* Line 369: fillWidth := int(float64(width-2) * percentage).
FillWidth(w, percentage) == Trunc((w - 2) * percentage[1], percentage[2])

\* Lines 359-362: the top and the bottom edge.
BorderRows(x, y, w, h) ==
    SetAll(UNION { {<<i, y>>, <<i, y + h>>} : i \in x .. (x + w - 1) })

\* Variant: the second loop draws the left edge only.
BorderColsLeftOnly(x, y, w, h) ==
    SetAll({ <<x, j>> : j \in y .. (y + h - 1) })

\* Lines 363-366: the left and the right edge.
BorderCols(x, y, w, h) ==
    SetAll(UNION { {<<x, j>>, <<x + w, j>>} : j \in y .. (y + h - 1) })

\* Lines 370-374: the filled block.
Fill(x, y, w, h, percentage) ==
    SetAll({ <<i, j>> : i \in (x + 1) .. (x + FillWidth(w, percentage)),
                        j \in (y + 1) .. (y + h - 1) })

BarCall(x, y, w, h, percentage) ==
    [kind |-> "drawBar", pc |-> "rows", x |-> x, y |-> y, w |-> w, h |-> h,
     percentage |-> percentage]

\* The bars drawn: near the buffer's origin and near its far corner, of
\* every small size, and the bar of TestDrawBar.
BarCalls ==
    { BarCall(x, y, w, h, f) :
        x \in (0 .. MaxPos) \cup ((width - 1 - MaxPos) .. (width - 1)),
        y \in (0 .. MaxPos) \cup ((height - 1 - MaxPos) .. (height - 1)),
        w \in 0 .. MaxBarW, h \in 0 .. MaxBarH, f \in Fractions }
      \cup { BarCall(10, 10, 50, barHeight, f) : f \in Fractions }

\* A fresh image and one call of drawBar about to run.
InitDrawBar ==
    /\ config \in BrightnessConfigs
    /\ config.DayStartHour = 7 /\ config.NightStartHour = 18
    /\ currentScreen = 0
    /\ isInverted = FALSE
    /\ img = {}
    /\ timeNow = Hours
    /\ run = "test"
    /\ runErr = NoError
    /\ \E c \in BarCalls : active = {c}
    /\ tickers = {}
    /\ pending = [t \in TickerNames |-> FALSE]
    /\ devContrast = 0
    /\ devInverted = FALSE
    /\ devFrame = NoFrame
    /\ devLog = << >>
    /\ hist = <<0>>

DrawBarStep(a, from, pixels, to) ==
    /\ a.kind = "drawBar"
    /\ a.pc = from
    /\ img' = img \cup pixels
    /\ active' = {[a EXCEPT !.pc = to]}
    /\ UNCHANGED <<config, currentScreen, isInverted, timeNow, run, runErr,
                   tickers, pending, devVars, hist>>

DrawBarRows(a) == DrawBarStep(a, "rows", BorderRows(a.x, a.y, a.w, a.h), "cols")

DrawBarCols(a) == DrawBarStep(a, "cols", BorderCols(a.x, a.y, a.w, a.h), "fill")

DrawBarFill(a) ==
    DrawBarStep(a, "fill", Fill(a.x, a.y, a.w, a.h, a.percentage), "ret")

NextDrawBar ==
    \/ \E a \in active : DrawBarRows(a)
    \/ \E a \in active : DrawBarCols(a)
    \/ \E a \in active : DrawBarFill(a)

SpecDrawBar == InitDrawBar /\ [][NextDrawBar]_vars

TypeOK ==
    /\ config \in Configs
    /\ currentScreen \in Int
    /\ isInverted \in BOOLEAN
    /\ timeNow \subseteq Hours
    /\ run \in {"new", "initB", "initR", "loop", "returned", "panicked"}
    /\ tickers \subseteq TickerNames
    /\ pending \in [TickerNames -> BOOLEAN]
    /\ devContrast \in {0, dimContrast, brightContrast}
    /\ devInverted \in BOOLEAN
    /\ Len(devLog) <= MaxLog


\* ============================================================ claims
TheHour == CHOOSE h \in timeNow : TRUE
InFlightPcs == {"drawing", "inverting", "contrasting"}

InFlight == {a \in active : a.pc \in InFlightPcs}

ScreenCount == Len(config.Screens)

\* The buffer a complete render cycle of screen index s leaves.
FullFrame(s) ==
    UNION { Painted(s, k, config.Screens[s + 1][k]) :
              k \in 1 .. Len(config.Screens[s + 1]) }

Ops(a) == {a.cmds[i].op : i \in 1 .. Len(a.cmds)}

Done(a) == a.pc = "ret" /\ a.err = "nil"

\* C1: stimulus handlers never overlap: in every step at most one handler
\* call is in progress and at most one device command is in flight, the
\* frame buffer is not cleared or painted while a Draw is in flight, and no
\* device command is issued while another is in flight.
C1_HandlersNeverOverlap ==
    [][ /\ Cardinality(active) <= 1
        /\ Cardinality(active') <= 1
        /\ Cardinality(InFlight') <= 1
        /\ (\E a \in active : a.pc = "drawing") => img' = img
        /\ InFlight # {} => devLog' = devLog /\ InFlight' \subseteq InFlight
      ]_vars

\* A Draw is in flight while the screen, invert and brightness ticks are all
\* buffered: the loop leaves them waiting.
C1_Witness ==
    /\ run = "loop"
    /\ \E a \in active : a.pc = "drawing" /\ a.kind = "update"
    /\ pending["screen"] /\ pending["invert"] /\ pending["brightness"]

\* C2: with at least one screen configured, currentScreen stays in
\* 0 .. len(Screens)-1 in every reachable state, and renderCurrentScreen
\* never indexes Screens out of range (Run never panics).
C2_CurrentScreenInRange ==
    ScreenCount >= 1 =>
        /\ currentScreen \in 0 .. (ScreenCount - 1)
        /\ run # "panicked"
        /\ \A a \in active : a.pc \in {"comp", "drawing"} =>
                                a.scr \in 0 .. (ScreenCount - 1)

\* A screen switch has wrapped the index from the last screen to 0, after an
\* inversion, and its render is indexing Screens.
C2_Witness ==
    /\ ScreenCount = MaxScreens
    /\ currentScreen = 0
    /\ isInverted
    /\ \E a \in active : a.kind = "screen" /\ a.pc = "comp"
                           /\ a.pre.cs = ScreenCount - 1

\* C3: rotation is cyclic: with N >= 1 screens, after N completed screen
\* switches currentScreen is back at the value it had before the first of
\* them, whatever other stimuli were processed in between.
C3_RotationCyclic ==
    (ScreenCount >= 1 /\ Len(hist) = ScreenCount + 1) =>
        hist[Len(hist)] = hist[1]

\* N = 3 switches completed, starting and ending at index 1, with an
\* inversion in between.
C3_Witness ==
    /\ ScreenCount = 3
    /\ hist = <<1, 2, 0, 1>>
    /\ currentScreen = 1
    /\ isInverted

\* C4: when a component of the active screen fails to render, the remaining
\* components are not rendered and no Draw is issued in that render cycle;
\* the buffer may hold the components painted before the failure.
C4_RenderErrorNoFlush ==
    \A a \in active :
        a.err = "error rendering component" =>
            /\ a.pc = "ret"
            /\ "Draw" \notin Ops(a)
            /\ \A r \in img : r[1] = a.scr /\ r[2] < a.k

\* The second of three components failed: the buffer holds the first one's
\* label, the third was not rendered, nothing was drawn.
C4_Witness ==
    \E a \in active :
        /\ a.err = "error rendering component"
        /\ a.k = 2
        /\ a.k < Len(ScreenAt(a))
        /\ img = {<<a.scr, 1, "label">>}
        /\ a.cmds = << >>

\* C5: the first error a handler returns ends the control loop: from the
\* moment a handler has failed nothing happens but ticks arriving and Run
\* returning an error that carries the handler's; after Run has returned no
\* stimulus is processed, nothing is retried and no device command is issued.
C5_FirstErrorTerminates ==
    [][ /\ \A a \in active :
              (a.pc = "ret" /\ a.err # "nil") =>
                  \/ /\ run' = "returned"
                     /\ runErr'[2] = a.err
                     /\ active' = {}
                     /\ UNCHANGED <<dmVars, devVars, pending>>
                  \/ /\ UNCHANGED <<dmVars, devVars, run, runErr, active>>
                     /\ \A t \in TickerNames : pending[t] => pending'[t]
        /\ run = "returned" => UNCHANGED vars
        /\ run' = "returned" => runErr' # NoError
      ]_vars

\* Run has returned a Draw error while update and screen ticks were buffered.
C5_Witness ==
    /\ run = "returned"
    /\ runErr = <<"", "draw">>
    /\ pending["update"] /\ pending["screen"]
    /\ currentScreen = 1

\* C6: a screen-switch stimulus sets currentScreen to (currentScreen + 1)
\* mod len(Screens) and then renders once in the same handler: the frame it
\* flushes is the rendering of the new index.
C6_ScreenSwitchRendersNew ==
    \A a \in active :
        a.kind = "screen" =>
            /\ a.pc # "advance" =>
                 currentScreen = (a.pre.cs + 1) % ScreenCount
            /\ a.pc \in {"comp", "drawing"} => a.scr = currentScreen
            /\ Done(a) =>
                 /\ a.cmds = << DrawCmd(FullFrame(currentScreen)) >>
                 /\ devFrame = FullFrame(currentScreen)

\* A completed switch from screen 0 to screen 1 whose frame differs from
\* screen 0's.
C6_Witness ==
    \E a \in active :
        /\ a.kind = "screen" /\ Done(a)
        /\ a.pre.cs = 0 /\ currentScreen = 1
        /\ devFrame # {} /\ devFrame # FullFrame(0)

\* C7: an update stimulus performs one full render cycle of
\* Screens[currentScreen], leaves currentScreen and isInverted unchanged and
\* issues no Invert or SetContrast.
C7_UpdateRendersOnly ==
    \A a \in active :
        a.kind = "update" =>
            /\ currentScreen = a.pre.cs
            /\ isInverted = a.pre.inv
            /\ Ops(a) \subseteq {"Draw"}
            /\ Done(a) =>
                 /\ a.scr = currentScreen
                 /\ img = FullFrame(currentScreen)
                 /\ a.cmds = << DrawCmd(FullFrame(currentScreen)) >>
                 /\ devFrame = FullFrame(currentScreen)

\* A completed update of screen 1 while the display is inverted.
C7_Witness ==
    \E a \in active :
        /\ a.kind = "update" /\ Done(a)
        /\ currentScreen = 1 /\ isInverted
        /\ devFrame # {}

\* C8: an invert stimulus flips isInverted, issues exactly one Invert with
\* the new value and does not repaint: no Draw, the buffer and currentScreen
\* unchanged.
C8_InvertTogglesOnly ==
    \A a \in active :
        a.kind = "invert" =>
            /\ currentScreen = a.pre.cs
            /\ img = a.pre.img
            /\ a.pc # "toggle" =>
                 /\ isInverted = ~a.pre.inv
                 /\ a.cmds = << InvertCmd(isInverted) >>
            /\ Done(a) => devInverted = isInverted

\* The second toggle (back to normal) has completed over a painted buffer.
C8_Witness ==
    \E a \in active :
        /\ a.kind = "invert" /\ Done(a)
        /\ a.pre.inv /\ ~isInverted
        /\ img # {}

\* C9: with InvertDuration = 0 there is no invert ticker, no invert stimulus
\* is ever processed, isInverted stays false and Invert is never issued,
\* while the screen, update and brightness tickers run and the idle loop
\* accepts a buffered tick of any of them.
C9_ZeroDisablesInvert ==
    config.InvertDuration = 0 =>
        /\ ~isInverted
        /\ ~devInverted
        /\ "invert" \notin tickers
        /\ ~pending["invert"]
        /\ \A a \in active : a.kind # "invert" /\ "Invert" \notin Ops(a)
        /\ \A i \in 1 .. Len(devLog) : devLog[i].op # "Invert"
        /\ run = "loop" =>
             /\ tickers = {"screen", "update", "brightness"}
             /\ \A t \in tickers :
                  (active = {} /\ pending[t]) => ENABLED Select(t)

\* Inversion disabled, and the loop has served a screen switch and is
\* completing a brightness update with an update tick buffered.
C9_Witness ==
    /\ config.InvertDuration = 0
    /\ run = "loop"
    /\ currentScreen = 1
    /\ pending["update"]
    /\ \E a \in active : a.kind = "brightness" /\ Done(a)

\* C10: a brightness stimulus issues exactly one SetContrast and nothing
\* else: no Draw, no Invert, and currentScreen, isInverted and the buffer
\* are unchanged.
C10_BrightnessContrastOnly ==
    \A a \in active :
        a.kind = "brightness" =>
            /\ currentScreen = a.pre.cs
            /\ isInverted = a.pre.inv
            /\ img = a.pre.img
            /\ a.pc \in {"eval", "contrasting", "ret"}
            /\ a.pc # "eval" =>
                 /\ Len(a.cmds) = 1
                 /\ a.cmds[1].op = "SetContrast"

\* A brightness update has completed on an inverted display showing
\* screen 1, changing the device's contrast to the bright level.
C10_Witness ==
    \E a \in active :
        /\ a.kind = "brightness" /\ Done(a)
        /\ isInverted /\ currentScreen = 1 /\ img # {}
        /\ devContrast = brightContrast

RenderKinds == {"initRender", "screen", "update"}

\* A render cycle of screen index s has just been flushed.
Flushed(s) ==
    \E a \in active :
        /\ a.kind \in RenderKinds /\ Done(a)
        /\ a.scr = s /\ currentScreen = s
        /\ devFrame = FullFrame(s)

\* C11: for every hour and every DayStartHour, NightStartHour in 0..23,
\* updateBrightness commands the bright contrast (255) exactly when
\* DayStartHour <= hour < NightStartHour and the dim contrast (1) otherwise,
\* and a completed SetContrast leaves the device at that level.
C11_BrightnessPolicy ==
    \A a \in active :
        (a.kind = "brightness" /\ a.pc # "eval") =>
            LET level == IF config.DayStartHour <= TheHour
                            /\ TheHour < config.NightStartHour
                         THEN 255 ELSE 1
            IN /\ a.cmds = << ContrastCmd(level) >>
               /\ Done(a) => devContrast = level

\* Day 7, night 18, the clock at 7: the bright level has been applied.
C11_Witness ==
    /\ config.DayStartHour = 7 /\ config.NightStartHour = 18
    /\ timeNow = {7}
    /\ devContrast = brightContrast
    /\ \E a \in active : a.kind = "brightness" /\ Done(a)

\* C12: when no handler ever returns an error, every timer keeps firing
\* and the select is fair among its ready cases, no stimulus is starved: a
\* render-and-flush happens infinitely often and every configured screen is
\* the active, flushed screen infinitely often.
C12_NoStarvation ==
    \/ <>(run = "returned")
    \/ /\ []<>(\E s \in 0 .. (ScreenCount - 1) : Flushed(s))
       /\ \A s \in 0 .. (MaxScreens - 1) :
            []<>(s >= ScreenCount \/ Flushed(s))

\* Two screens: the rotation has wrapped and screen 0 is flushed again
\* while update and brightness ticks wait.
C12_Witness ==
    /\ ScreenCount = 2
    /\ hist = <<0, 1, 0>>
    /\ Flushed(0)
    /\ pending["update"] /\ pending["brightness"]

\* C13: every render cycle first zeroes the whole frame buffer, so a
\* flushed frame holds nothing of an earlier cycle or of another screen:
\* the clearing step leaves the buffer empty, while a cycle paints the
\* buffer holds only what this cycle's components painted so far, and every
\* frame given to Draw or shown by the device is made of the regions of
\* the screen being rendered.
C13_NoStalePixels ==
    [][ /\ \A a \in active :
             (a.pc = "render" /\ active' # active) => img' = {}
        /\ \A b \in active' :
             /\ b.pc \in {"comp", "drawing"} =>
                    img' = UNION { Painted(b.scr, k, ScreenAt(b)[k]) :
                                     k \in 1 .. (b.k - 1) }
             /\ b.kind \in RenderKinds =>
                    \A i \in 1 .. Len(b.cmds) :
                        b.cmds[i].frame \subseteq FullFrame(b.scr)
             /\ (b.kind \in RenderKinds /\ devFrame' # devFrame) =>
                    devFrame' = FullFrame(b.scr)
      ]_vars

\* Screen 0 was in the buffer when the switch began; the flushed frame is
\* exactly screen 1.
C13_Witness ==
    \E a \in active :
        /\ a.kind = "screen" /\ Done(a) /\ a.scr = 1
        /\ a.pre.img = FullFrame(0) /\ a.pre.img # {}
        /\ devFrame = FullFrame(1) /\ devFrame \cap FullFrame(0) = {}

\* C14: a render cycle in which no component fails issues exactly one
\* Draw, over the whole buffer bounds with source origin (0, 0), and only
\* after the last component has been painted: the drawn frame is the
\* complete screen. This holds whether the Draw succeeds or fails.
C14_OneFullDraw ==
    \A a \in active :
        (a.kind \in RenderKinds /\ a.pc = "ret" /\ a.err \in {"nil", "draw"}) =>
            /\ Len(a.cmds) = 1
            /\ a.cmds[1].op = "Draw"
            /\ a.cmds[1].rect = <<0, 0, 128, 64>>
            /\ a.cmds[1].sp = <<0, 0>>
            /\ a.cmds[1].frame = FullFrame(a.scr)

\* A cycle of the three-component screen 0 has finished with one Draw.
C14_Witness ==
    \E a \in active :
        /\ a.kind = "update" /\ Done(a) /\ a.scr = 0
        /\ Len(ScreenAt(a)) = 3 /\ a.k = 4
        /\ a.cmds = << DrawCmd(FullFrame(0)) >>

\* C15: a configuration with an empty screen list is rejected with an
\* error at startup: the program neither enters the loop nor attempts a
\* render, never indexes the screen list out of range, and ends with an
\* error.
C15_EmptyScreensRejected ==
    ScreenCount = 0 =>
        /\ run \notin {"initR", "loop", "panicked"}
        /\ \A a \in active : a.kind \notin RenderKinds
        /\ run = "returned" => runErr # NoError

\* C16: the select has no fixed priority: whenever the loop is at the
\* select, every stimulus whose tick is waiting can be the one handled
\* next, whatever other ticks wait with it.
C16_NoFixedPriority ==
    (run = "loop" /\ active = {}) =>
        \A t \in TickerNames, u \in TickerNames :
            (t # u /\ pending[t] /\ pending[u]) =>
                ENABLED Select(t) /\ ENABLED Select(u)

\* All four ticks wait at the select.
C16_Witness ==
    /\ run = "loop" /\ active = {}
    /\ \A t \in TickerNames : pending[t]

NonEmptyText(txt) == \E i \in 1 .. Len(txt) : txt[i] # ""

InfallibleScreen(scr) ==
    \A k \in 1 .. Len(scr) :
        scr[k].Type \in {"time", "ip"} \/ scr[k].Type \notin KnownTypes

\* C17: the IP lookup never produces an error: an "ip" component always
\* draws its label followed by a non-empty text (the address or a fallback
\* marker), and a render cycle of a screen that has only "ip", "time" and
\* unknown-type components fails only if the Draw fails.
C17_IpNeverFails ==
    \A a \in active :
        (a.kind \in RenderKinds /\ a.scr >= 0) =>
            /\ (a.k >= 2 /\ a.k <= Len(ScreenAt(a)) + 1
                   /\ ScreenAt(a)[a.k - 1].Type = "ip"
                   /\ (a.pc # "ret" \/ a.err \in {"nil", "draw"})) =>
                  /\ Len(a.text) > 2
                  /\ a.text[1] = ScreenAt(a)[a.k - 1].Label
                  /\ NonEmptyText(SubSeq(a.text, 3, Len(a.text)))
                  /\ <<a.scr, a.k - 1, "label">> \in img
            /\ InfallibleScreen(ScreenAt(a)) => a.err \in {"nil", "draw"}

\* The screen of time, an unknown type and ip has been flushed; the
\* interface had no IPv4 address.
C17_Witness ==
    \E a \in active :
        /\ Done(a) /\ a.scr = 2 /\ InfallibleScreen(ScreenAt(a))
        /\ a.text = << "IP", ": ", "No IPv4" >>
        /\ devFrame = FullFrame(2)

\* C18: rendering a component whose Type is none of the known ones changes
\* no pixel, queries no provider, draws no label and returns no error: the
\* cycle goes on with the next component.
C18_UnknownTypeNoOp ==
    [][ \A a \in active :
          (/\ a.pc = "comp" /\ a.k <= Len(ScreenAt(a))
           /\ ScreenAt(a)[a.k].Type \notin KnownTypes
           /\ active' # active) =>
              /\ img' = img
              /\ active' = {[a EXCEPT !.k = a.k + 1]}
      ]_vars

\* The unknown component of screen 2 has been passed: only the time label
\* before it is in the buffer, only the clock was read.
C18_Witness ==
    \E a \in active :
        /\ a.pc = "comp" /\ a.scr = 2 /\ a.k = 3
        /\ ScreenAt(a)[2].Type = "gauge"
        /\ img = {<<2, 1, "label">>} /\ a.asked = {"clock"} /\ a.err = "nil"

\* drawBar has returned.
BarDone(a) == a.kind = "drawBar" /\ a.pc = "ret"

\* The rectangle [x, x+width] x [y, y+height] lies in the buffer.
BarInBuffer(a) ==
    /\ a.x >= 0 /\ a.x + a.w <= width - 1
    /\ a.y >= 0 /\ a.y + a.h <= height - 1

\* The pixels on the four edges of the rectangle.
BorderOf(a) ==
    { <<i, j>> \in (a.x .. (a.x + a.w)) \X (a.y .. (a.y + a.h)) :
        i \in {a.x, a.x + a.w} \/ j \in {a.y, a.y + a.h} }

\* The pixels strictly inside the border.
InteriorOf(a) ==
    ((a.x + 1) .. (a.x + a.w - 1)) \X ((a.y + 1) .. (a.y + a.h - 1))

\* C19: for every position, width, height and fraction, drawBar sets every
\* pixel on the four edges of the rectangle [x, x+width] x [y, y+height],
\* the four corners included (read for rectangles that lie in the buffer
\* and have a width and a height of at least 1).
C19_FullBorder ==
    \A a \in active :
        (BarDone(a) /\ BarInBuffer(a) /\ a.w >= 1 /\ a.h >= 1) =>
            BorderOf(a) \subseteq img

\* C20 as stated: for fraction 0, 0.5 and 1 and any position and size,
\* after drawBar on a cleared buffer the interior of the bar holds a set
\* pixel if and only if fraction > 0.
C20_InteriorIffPositive ==
    \A a \in active :
        (BarDone(a) /\ a.percentage \in {<<0, 1>>, <<1, 2>>, <<1, 1>>}) =>
            ((InteriorOf(a) \cap img # {}) <=> a.percentage[1] > 0)

\* C20 amended: for fraction 0, 0.5 and 1, after drawBar on a cleared
\* buffer of a bar that lies in the buffer and is at least 4 wide and 2
\* high, the interior holds a set pixel if and only if fraction > 0; a
\* narrower or flatter bar can have an empty interior at a positive
\* fraction.
C20_InteriorIffPositiveSized ==
    \A a \in active :
        (/\ BarDone(a) /\ a.percentage \in {<<0, 1>>, <<1, 2>>, <<1, 1>>}
         /\ BarInBuffer(a) /\ a.w >= 4 /\ a.h >= 2) =>
            ((InteriorOf(a) \cap img # {}) <=> a.percentage[1] > 0)

\* The bar of TestDrawBar at one half: filled from column 11 to 34.
C20_Witness ==
    \E a \in active :
        /\ BarDone(a) /\ a.x = 10 /\ a.y = 10 /\ a.w = 50 /\ a.h = barHeight
        /\ a.percentage = <<1, 2>>
        /\ <<11, 11>> \in img /\ <<34, 16>> \in img /\ <<35, 13>> \notin img

\* The midpoints of the top, bottom, left and right edge of the rectangle.
EdgeMidpoints(a) ==
    { <<a.x + a.w \div 2, a.y>>, <<a.x + a.w \div 2, a.y + a.h>>,
      <<a.x, a.y + a.h \div 2>>, <<a.x + a.w, a.y + a.h \div 2>> }

StimulusKinds == {"screen", "update", "invert", "brightness"}

\* C22: startup ordering of Run: the first device command is the
\* SetContrast of the initial brightness evaluation, the second is the Draw
\* of screen index 0, and both have been issued before the loop is entered
\* and any timer stimulus is processed; if the initial SetContrast fails,
\* Run returns an error and no Draw is ever issued.
C22_StartupOrder ==
    /\ Len(devLog) >= 1 =>
          /\ devLog[1].op = "SetContrast"
          /\ devLog[1].level \in {brightContrast, dimContrast}
    /\ Len(devLog) >= 2 =>
          /\ ScreenCount >= 1
          /\ devLog[2] = DrawCmd(FullFrame(0))
    /\ Len(devLog) <= 2
    /\ run \in {"new", "initB"} =>
          /\ devFrame = NoFrame
          /\ \A i \in 1 .. Len(devLog) : devLog[i].op # "Draw"
    /\ devFrame # NoFrame => Len(devLog) = 2
    /\ run = "loop" => Len(devLog) = 2
    /\ \A a \in active :
          a.kind \in StimulusKinds => run = "loop" /\ Len(devLog) = 2
    /\ (run = "returned" /\ runErr[1] = "failed to set initial brightness") =>
          /\ runErr[2] = "contrast"
          /\ Len(devLog) = 1
          /\ devFrame = NoFrame
          /\ img = {}

\* The loop has just been entered after a day-time start: both commands
\* are logged, a screen tick waits, and nothing has been processed yet.
C22_Witness ==
    /\ run = "loop" /\ active = {}
    /\ ScreenCount = 2
    /\ devLog = << ContrastCmd(brightContrast), DrawCmd(FullFrame(0)) >>
    /\ devContrast = brightContrast /\ devFrame = FullFrame(0)
    /\ pending["screen"] /\ hist = <<0>> /\ currentScreen = 0

\* C23: the device starts non-inverted. Whenever the loop is idle between
\* stimuli and Run has not ended, the inversion last commanded to the
\* device equals isInverted. The two differ only while an Invert is in
\* flight or has just failed, and in the terminal state after a failed
\* Invert (isInverted is flipped before the command is issued).
C23_InversionInSync ==
    /\ (active = {} /\ run \notin {"returned", "panicked"}) =>
          devInverted = isInverted
    /\ devInverted # isInverted =>
          \/ \E a \in active :
                /\ a.kind = "invert"
                /\ a.pc = "inverting" \/ (a.pc = "ret" /\ a.err = "invert")
          \/ /\ run = "returned"
             /\ runErr = <<"failed to toggle invert", "invert">>

\* The loop is idle after an odd number of completed inversions, a screen
\* switch behind it.
C23_Witness ==
    /\ run = "loop" /\ active = {}
    /\ isInverted /\ devInverted
    /\ currentScreen = 1 /\ devFrame = FullFrame(1)

C25_FullBarAtOne ==
    \A a \in active :
        (/\ BarDone(a) /\ a.percentage = <<1, 1>>
         /\ BarInBuffer(a) /\ a.w >= 4 /\ a.h >= 2) =>
            InteriorOf(a) \subseteq img

====
